---- MODULE Spec2Model ----
(***************************************************************************)
(* The headless simulator of nakib-simulator/testing.py: the path planner  *)
(* (calculate_safe_path, ensure_safe_point), the stepper                   *)
(* (HeadlessCarSimulator.step), the safety classification and the loop of  *)
(* run_single_test with its TestResult.                                    *)
(*                                                                         *)
(* Numbers.  progress and speed are Python floats (binary64) and the code  *)
(* accumulates progress by repeated float addition, so the addition is     *)
(* modelled bit-exactly (53-bit significand, round to nearest, ties to     *)
(* even) on multi-limb naturals.  Coordinates are fixed-point: one unit    *)
(* of the program is CoordScale model units (coordinates within 10 units   *)
(* of the origin), and distances are compared through their squares.  A    *)
(* position is therefore exact to 1/CoordScale only: a frame whose float   *)
(* distance differs from a threshold by rounding error alone may be        *)
(* classified on the other side of it.                                     *)
(***************************************************************************)
EXTENDS Integers, Sequences, FiniteSets, TLC

(***************************************************************************)
(* Safety states (testing.py:9-11).                                        *)
(***************************************************************************)
SAFE == 0
MILD_UNSAFE == 1
UNSAFE == 2

(***************************************************************************)
(* Fixed-point coordinates: a program coordinate c is the integer          *)
(* c * CoordScale.  A unit vector is carried with UnitScale fractional     *)
(* resolution.                                                             *)
(***************************************************************************)
CoordScale == 1000
UnitScale == 10000

\* a / b rounded to the nearest integer, halves away from zero (b > 0)
RDiv(a, b) ==
    IF a >= 0 THEN (2 * a + b) \div (2 * b)
              ELSE -((2 * (-a) + b) \div (2 * b))

\* floor of the square root of n >= 0
RECURSIVE SqrtSearch(_, _, _)
SqrtSearch(n, lo, hi) ==
    IF lo >= hi THEN lo
    ELSE LET mid == (lo + hi + 1) \div 2
         IN IF mid * mid <= n THEN SqrtSearch(n, mid, hi)
                               ELSE SqrtSearch(n, lo, mid - 1)

ISqrt(n) == SqrtSearch(n, 0, 46340)

Sub(a, b) == <<a[1] - b[1], a[2] - b[2]>>
Scaled(v, k) == <<v[1] * k, v[2] * k>>
Dot(a, b) == a[1] * b[1] + a[2] * b[2]

\* |a - b|^2 in squared model units: np.linalg.norm(a - b) squared
Dist2(a, b) == Dot(Sub(a, b), Sub(a, b))

\* a threshold t (in model units) squared, for comparing a norm against it
Sq(t) == t * t

\* np.linalg.norm(v) < t, for a norm whose square is d2
NormLess(d2, t) == t > 0 /\ d2 < Sq(t)

\* np.linalg.norm(v) > t, for a norm whose square is d2
NormGreater(d2, t) == t < 0 \/ d2 > Sq(t)

\* v / np.linalg.norm(v) when the norm is positive, else v itself (the zero
\* vector), as a vector scaled by UnitScale
Normalize(v) ==
    LET n2 == Dot(v, v)
        n4 == ISqrt(n2 * 16)
    IN IF n2 > 0
       THEN <<RDiv(v[1] * UnitScale * 4, n4), RDiv(v[2] * UnitScale * 4, n4)>>
       ELSE <<0, 0>>

\* origin + unit * (length * num / den), unit scaled by UnitScale
Offset(origin, unit, length, num, den) ==
    <<origin[1] + RDiv(unit[1] * length * num, den * UnitScale),
      origin[2] + RDiv(unit[2] * length * num, den * UnitScale)>>

Sign(x) == IF x > 0 THEN 1 ELSE IF x < 0 THEN -1 ELSE 0

(***************************************************************************)
(* Binary64 arithmetic for progress and speed.  A speed is m * 2^(-q) with *)
(* m < 2^MantissaBits; every value progress takes is then k * 2^(-q) for a *)
(* natural k, carried as three limbs <<low, middle, high>> of LimbBits     *)
(* bits.  The model covers speeds >= 0 with q <= 64.                       *)
(***************************************************************************)
MantissaBits == 53
LimbBits == 24
LimbBase == 2 ^ LimbBits

BigZero == <<0, 0, 0>>

BigAdd(a, b) ==
    LET s1 == a[1] + b[1]
        s2 == a[2] + b[2] + (s1 \div LimbBase)
        s3 == a[3] + b[3] + (s2 \div LimbBase)
    IN <<s1 % LimbBase, s2 % LimbBase, s3>>

BigGeq(a, b) ==
    \/ a[3] > b[3]
    \/ a[3] = b[3] /\ a[2] > b[2]
    \/ a[3] = b[3] /\ a[2] = b[2] /\ a[1] >= b[1]

\* 2^n as limbs
BigPow2(n) ==
    <<IF n < LimbBits THEN 2 ^ n ELSE 0,
      IF n >= LimbBits /\ n < 2 * LimbBits THEN 2 ^ (n - LimbBits) ELSE 0,
      IF n >= 2 * LimbBits THEN 2 ^ (n - 2 * LimbBits) ELSE 0>>

RECURSIVE BitLength(_)
BitLength(n) == IF n = 0 THEN 0 ELSE 1 + BitLength(n \div 2)

BigBitLength(a) ==
    IF a[3] > 0 THEN 2 * LimbBits + BitLength(a[3])
    ELSE IF a[2] > 0 THEN LimbBits + BitLength(a[2])
    ELSE BitLength(a[1])

\* the binary64 nearest to the natural a (ties to even); fewer than LimbBits
\* bits are ever dropped
RoundToDouble(a) ==
    LET r == BigBitLength(a) - MantissaBits
    IN IF r <= 0 THEN a
       ELSE LET unit == 2 ^ r
                rem  == a[1] % unit
                low  == a[1] - rem
                odd  == (low \div unit) % 2 = 1
                down == <<low, a[2], a[3]>>
            IN IF rem * 2 > unit \/ (rem * 2 = unit /\ odd)
               THEN BigAdd(down, BigPow2(r))
               ELSE down

\* the float sum a + b of two values on the same grid
FloatAdd(a, b) == RoundToDouble(BigAdd(a, b))

\* floor(a / 2^n), a value below 2^31
BigShiftRight(a, n) ==
    LET k == n \div LimbBits
        r == n % LimbBits
        w(i) == IF i + k <= 3 THEN a[i + k] ELSE 0
    IN (w(1) \div (2 ^ r))
       + (IF w(2) = 0 THEN 0 ELSE w(2) * 2 ^ (LimbBits - r))
       + (IF w(3) = 0 THEN 0 ELSE w(3) * 2 ^ (2 * LimbBits - r))

\* The fraction progress (a value in [0, 1) on the grid of 2^(-q)) in
\* units of 2^(-FracBits), for the product with a coordinate difference.
FracBits == 16

ProgressFraction(p, q) == BigShiftRight(p, q - FracBits)

\* segment_start + progress * (segment_end - segment_start)
Interpolate(segment_start, segment_end, p, q) ==
    LET f == ProgressFraction(p, q)
    IN <<segment_start[1] + RDiv(f * (segment_end[1] - segment_start[1]), 2 ^ FracBits),
         segment_start[2] + RDiv(f * (segment_end[2] - segment_start[2]), 2 ^ FracBits)>>

(***************************************************************************)
(* The speeds of the model, as binary64 values m * 2^(-q).                 *)
(***************************************************************************)
Speed_0       == [m |-> BigZero, q |-> 52]
\* 0.5 = 0x1.0p-1
Speed_0_5     == [m |-> <<0, 0, 16>>, q |-> 53]
\* 1.0 = 0x1.0p0
Speed_1       == [m |-> <<0, 0, 16>>, q |-> 52]
\* 0.02 = 0x1.47ae147ae147bp-6, the default of the constructor
Speed_0_02    == [m |-> <<11408507, 8053063, 20>>, q |-> 58]
\* 0.1 = 0x1.999999999999ap-4
Speed_0_1     == [m |-> <<10066330, 10066329, 25>>, q |-> 56]
\* 0.0009995: the sum first reaches 1.0 on the 1001st addition
Speed_0_0009995 == [m |-> <<16618302, 6305011, 16>>, q |-> 62]

IsPositive(s) == s.m # BigZero

\* progress >= 1.0 on the grid of speed s
AtLeastOne(p, s) == BigGeq(p, BigPow2(s.q))

(***************************************************************************)
(* Thresholds of the program, in model units.                              *)
(***************************************************************************)
\* 0.1: two path points closer than this are one point (testing.py:177-193)
DedupThreshold == CoordScale \div 10
\* obstacle_radius = 0.5 (testing.py:248)
obstacle_radius == CoordScale \div 2
\* float('inf') (testing.py:237, 341): above every squared distance
Infinity == 2147483647
\* the step cap of run_single_test (testing.py:345)
StepCap == 1000

(***************************************************************************)
(* ensure_safe_point (testing.py:198-210).                                 *)
(***************************************************************************)
\* PushAway that pushes a point lying on the obstacle along the x axis
PushAway_ArbitraryDirection(safe_point, obstacle, barrier_distance) ==
    IF NormLess(Dist2(safe_point, obstacle), barrier_distance)
    THEN Offset(obstacle,
                IF safe_point = obstacle THEN <<UnitScale, 0>>
                ELSE Normalize(Sub(safe_point, obstacle)),
                barrier_distance, 11, 10)
    ELSE safe_point

\* one pass of the loop body, for one obstacle
PushAway(safe_point, obstacle, barrier_distance) ==
    IF NormLess(Dist2(safe_point, obstacle), barrier_distance)
    THEN Offset(obstacle, Normalize(Sub(safe_point, obstacle)),
                barrier_distance, 11, 10)
    ELSE safe_point

RECURSIVE EnsureFrom(_, _, _, _)
EnsureFrom(point, obstacles, barrier_distance, k) ==
    IF k > Len(obstacles) THEN point
    ELSE EnsureFrom(PushAway(point, obstacles[k], barrier_distance),
                    obstacles, barrier_distance, k + 1)

ensure_safe_point(point, obstacles, barrier_distance) ==
    EnsureFrom(point, obstacles, barrier_distance, 1)

(***************************************************************************)
(* calculate_safe_path (testing.py:137-196).                               *)
(***************************************************************************)
\* path with point appended when it is more than 0.1 from current_pos
AppendIfFar(acc, point) ==
    IF NormGreater(Dist2(point, acc.current_pos), DedupThreshold)
    THEN [path |-> Append(acc.path, point), current_pos |-> point]
    ELSE acc

\* the unit main direction start -> end (the zero vector when start = end)
MainDirection(start_point, end_point) == Normalize(Sub(end_point, start_point))

Perp(main_direction) == <<-main_direction[2], main_direction[1]>>

\* the avoidance candidate nearer the end point; side2 on a tie
BestSide(start_point, end_point, obstacle, barrier_distance) ==
    LET perp  == Perp(MainDirection(start_point, end_point))
        side1 == Offset(obstacle, perp, barrier_distance, 3, 2)
        side2 == Offset(obstacle, Scaled(perp, -1), barrier_distance, 3, 2)
    IN IF Dist2(end_point, side1) < Dist2(end_point, side2) THEN side1 ELSE side2

ApproachPoint(start_point, end_point, obstacle, barrier_distance) ==
    LET main_direction == MainDirection(start_point, end_point)
        perp      == Perp(main_direction)
        best_side == BestSide(start_point, end_point, obstacle, barrier_distance)
        side      == Sign(Dot(perp, Sub(best_side, obstacle)))
    IN Offset(Offset(obstacle, Scaled(main_direction, -1), barrier_distance, 6, 5),
              Scaled(perp, side), barrier_distance, 6, 5)

\* the body of the loop over the obstacles, for obstacle k
RECURSIVE PlanFrom(_, _, _, _, _, _)
PlanFrom(acc, start_point, end_point, obstacles, barrier_distance, k) ==
    IF k > Len(obstacles) THEN acc
    ELSE LET approach_point ==
                 ensure_safe_point(
                     ApproachPoint(start_point, end_point, obstacles[k], barrier_distance),
                     obstacles, barrier_distance)
             avoidance_point ==
                 ensure_safe_point(
                     BestSide(start_point, end_point, obstacles[k], barrier_distance),
                     obstacles, barrier_distance)
         IN PlanFrom(AppendIfFar(AppendIfFar(acc, approach_point), avoidance_point),
                     start_point, end_point, obstacles, barrier_distance, k + 1)

\* "Remove duplicate points"
RECURSIVE CleanFrom(_, _, _)
CleanFrom(path, clean_path, k) ==
    IF k > Len(path) THEN clean_path
    ELSE CleanFrom(path,
                   IF Len(clean_path) = 0
                      \/ NormGreater(Dist2(path[k], clean_path[Len(clean_path)]),
                                     DedupThreshold)
                   THEN Append(clean_path, path[k]) ELSE clean_path,
                   k + 1)

\* calculate_safe_path without the early return for an empty obstacle list
calculate_safe_path_NoEarlyReturn(start_point, end_point, obstacles, barrier_distance) ==
    LET acc == PlanFrom([path |-> <<start_point>>, current_pos |-> start_point],
                        start_point, end_point, obstacles, barrier_distance, 1)
        final_point == ensure_safe_point(end_point, obstacles, barrier_distance)
    IN CleanFrom(AppendIfFar(acc, final_point).path, <<>>, 1)

\* calculate_safe_path that appends the final point whatever its distance to
\* the last point, and does not clean the path
calculate_safe_path_AlwaysAppendsEnd(start_point, end_point, obstacles, barrier_distance) ==
    IF Len(obstacles) = 0 THEN <<start_point, end_point>>
    ELSE LET acc == PlanFrom([path |-> <<start_point>>, current_pos |-> start_point],
                             start_point, end_point, obstacles, barrier_distance, 1)
             final_point == ensure_safe_point(end_point, obstacles, barrier_distance)
         IN Append(acc.path, final_point)

\* calculate_safe_path that forgets the final destination
calculate_safe_path_WithoutEnd(start_point, end_point, obstacles, barrier_distance) ==
    IF Len(obstacles) = 0 THEN <<start_point, end_point>>
    ELSE LET acc == PlanFrom([path |-> <<start_point>>, current_pos |-> start_point],
                             start_point, end_point, obstacles, barrier_distance, 1)
         IN CleanFrom(acc.path, <<>>, 1)

calculate_safe_path(start_point, end_point, obstacles, barrier_distance) ==
    IF Len(obstacles) = 0 THEN <<start_point, end_point>>
    ELSE LET acc == PlanFrom([path |-> <<start_point>>, current_pos |-> start_point],
                             start_point, end_point, obstacles, barrier_distance, 1)
             final_point == ensure_safe_point(end_point, obstacles, barrier_distance)
         IN CleanFrom(AppendIfFar(acc, final_point).path, <<>>, 1)

(***************************************************************************)
(* HeadlessCarSimulator (testing.py:118-255).  The object is a record; the *)
(* index current_path_index is 0-based as in the program, the sequence     *)
(* path is 1-based.                                                        *)
(***************************************************************************)
PathAt(c, i) == c.path[i + 1]

\* __init__ (testing.py:121-135)
HeadlessCarSimulator(start_point, end_point, obstacle_positions, barrier_distance, speed) ==
    [start_point        |-> start_point,
     end_point          |-> end_point,
     obstacle_positions |-> obstacle_positions,
     barrier_distance   |-> barrier_distance,
     speed              |-> speed,
     current_position   |-> start_point,
     path               |-> calculate_safe_path(start_point, end_point,
                                                obstacle_positions, barrier_distance),
     current_path_index |-> 0,
     progress           |-> BigZero,
     has_reached_end    |-> FALSE]

\* MoveAlongSegment with "progress > 1.0" for "progress >= 1.0"
MoveAlongSegment_StrictWrap(c) ==
    LET segment_start == PathAt(c, c.current_path_index)
        segment_end   == PathAt(c, c.current_path_index + 1)
        advanced      == FloatAdd(c.progress, c.speed.m)
        wraps         == AtLeastOne(advanced, c.speed) /\ advanced # BigPow2(c.speed.q)
        progress      == IF wraps THEN BigZero ELSE advanced
        index         == IF wraps THEN c.current_path_index + 1
                                  ELSE c.current_path_index
        reached       == wraps /\ index >= Len(c.path) - 1
    IN [c EXCEPT !.progress = progress,
                 !.current_path_index = index,
                 !.has_reached_end = reached,
                 !.current_position =
                     IF reached THEN c.current_position
                     ELSE Interpolate(segment_start, segment_end, progress, c.speed.q)]

\* MoveAlongSegment that starts the path again when the end is reached
MoveAlongSegment_RestartsAtEnd(c) ==
    LET segment_start == PathAt(c, c.current_path_index)
        segment_end   == PathAt(c, c.current_path_index + 1)
        advanced      == FloatAdd(c.progress, c.speed.m)
        wraps         == AtLeastOne(advanced, c.speed)
        progress      == IF wraps THEN BigZero ELSE advanced
        index         == IF wraps THEN c.current_path_index + 1
                                  ELSE c.current_path_index
        reached       == wraps /\ index >= Len(c.path) - 1
    IN [c EXCEPT !.progress = progress,
                 !.current_path_index = IF reached THEN 0 ELSE index,
                 !.has_reached_end = reached,
                 !.current_position =
                     IF reached THEN c.current_position
                     ELSE Interpolate(segment_start, segment_end, progress, c.speed.q)]

\* the branch of step() taken while a segment is left (testing.py:217-230)
MoveAlongSegment(c) ==
    LET segment_start == PathAt(c, c.current_path_index)
        segment_end   == PathAt(c, c.current_path_index + 1)
        advanced      == FloatAdd(c.progress, c.speed.m)
        wraps         == AtLeastOne(advanced, c.speed)
        progress      == IF wraps THEN BigZero ELSE advanced
        index         == IF wraps THEN c.current_path_index + 1
                                  ELSE c.current_path_index
        reached       == wraps /\ index >= Len(c.path) - 1
    IN [c EXCEPT !.progress = progress,
                 !.current_path_index = index,
                 !.has_reached_end = reached,
                 !.current_position =
                     IF reached THEN c.current_position
                     ELSE Interpolate(segment_start, segment_end, progress, c.speed.q)]

\* step with the early return answering "still moving"
step_FinishedReturnsTrue(c) ==
    IF c.has_reached_end THEN [car |-> c, ret |-> TRUE]
    ELSE LET after == IF c.current_path_index < Len(c.path) - 1
                      THEN MoveAlongSegment(c) ELSE c
         IN [car |-> after, ret |-> ~after.has_reached_end]

\* step that records where the car is in start_point
step_MovesStartPoint(c) ==
    IF c.has_reached_end THEN [car |-> c, ret |-> FALSE]
    ELSE LET after == IF c.current_path_index < Len(c.path) - 1
                      THEN MoveAlongSegment(c) ELSE c
         IN [car |-> [after EXCEPT !.start_point = after.current_position],
             ret |-> ~after.has_reached_end]

\* step() (testing.py:212-232): the object after the call and the value returned
step(c) ==
    IF c.has_reached_end THEN [car |-> c, ret |-> FALSE]
    ELSE LET after == IF c.current_path_index < Len(c.path) - 1
                      THEN MoveAlongSegment(c) ELSE c
         IN [car |-> after, ret |-> ~after.has_reached_end]

RECURSIVE MinDist2From(_, _, _, _)
MinDist2From(position, obstacles, k, best) ==
    IF k > Len(obstacles) THEN best
    ELSE LET d == Dist2(position, obstacles[k])
         IN MinDist2From(position, obstacles, k + 1, IF d < best THEN d ELSE best)

\* get_distance_to_obstacles (testing.py:234-241), as the squared distance
get_distance_to_obstacles(c) ==
    IF Len(c.obstacle_positions) = 0 THEN Infinity
    ELSE MinDist2From(c.current_position, c.obstacle_positions, 1, Infinity)

\* Classify with the barrier comparison turned round
Classify_OutsideBarrier(distance, barrier_distance) ==
    IF NormLess(distance, obstacle_radius) THEN UNSAFE
    ELSE IF NormGreater(distance, barrier_distance) THEN MILD_UNSAFE
    ELSE SAFE

\* Classify with the barrier tested before the obstacle radius
Classify_BarrierFirst(distance, barrier_distance) ==
    IF NormLess(distance, barrier_distance) THEN MILD_UNSAFE
    ELSE IF NormLess(distance, obstacle_radius) THEN UNSAFE
    ELSE SAFE

\* the classification of a squared distance (testing.py:250-255)
Classify(distance, barrier_distance) ==
    IF NormLess(distance, obstacle_radius) THEN UNSAFE
    ELSE IF NormLess(distance, barrier_distance) THEN MILD_UNSAFE
    ELSE SAFE

\* get_safety_state (testing.py:243-255)
get_safety_state(c) == Classify(get_distance_to_obstacles(c), c.barrier_distance)

(***************************************************************************)
(* TestResult (testing.py:13-34).                                          *)
(***************************************************************************)
TestResult(barrier_distance, total_frames, safe, mild_unsafe, unsafe, min_distance) ==
    [barrier_distance      |-> barrier_distance,
     total_frames          |-> total_frames,
     safe_frames           |-> safe,
     mild_unsafe_frames    |-> mild_unsafe,
     unsafe_frames         |-> unsafe,
     min_distance_observed |-> min_distance]

\* safety_status by majority of frames
safety_status_Majority(r) ==
    IF r.unsafe_frames > r.safe_frames /\ r.unsafe_frames > r.mild_unsafe_frames
    THEN UNSAFE
    ELSE IF r.mild_unsafe_frames > r.safe_frames THEN MILD_UNSAFE
    ELSE SAFE

\* the property safety_status (testing.py:26-34)
safety_status(r) ==
    IF r.unsafe_frames > 0 THEN UNSAFE
    ELSE IF r.mild_unsafe_frames > 0 THEN MILD_UNSAFE
    ELSE SAFE

NoResult == TestResult(0, -1, 0, 0, 0, Infinity)

(***************************************************************************)
(* The scenarios: the arguments of run_single_test.                        *)
(***************************************************************************)
MaxObstacles == 1

\* the point (x, y) of the program
Point(x, y) == <<x * CoordScale, y * CoordScale>>

StartPoints == {Point(0, 0)}
EndPoints == {Point(0, 0), Point(4, 0), Point(4, 3)}
ObstaclePoints == {Point(0, 0), Point(2, 0), Point(2, 1)}
BarrierDistances == {CoordScale \div 2, CoordScale}
Speeds == {Speed_0, Speed_1, Speed_0_5, Speed_0_1, Speed_0_02, Speed_0_0009995}

ObstacleLists == UNION {[1..n -> ObstaclePoints] : n \in 0..MaxObstacles}

VARIABLES
    car,                    \* the HeadlessCarSimulator
    step_result,            \* what the last step() call returned
    step_calls,             \* how many step() calls were made
    safe_frames, mild_unsafe_frames, unsafe_frames,
    min_distance_observed,
    frame_count,
    current_test_data,      \* data_collector: the safety_state values collected
    pc,                     \* "loop", "done" (run_single_test), "client",
                            \* "planner", "summary", "reported", "batch",
                            \* "aborted" or "animation"
    result,                 \* the TestResult returned
    ensured,                \* the last ensure_safe_point call and its result
    test_results,           \* the list handed to generate_test_summary
    report,                 \* what generate_test_summary printed
    tests,                  \* the rows run_tests_from_csv read
    row,                    \* the index i of its loop over the rows
    twin,                   \* a second run of the same path and speed with
                            \* another barrier distance, and its counters
    animated                \* the MovingCar of animation.py

vars == <<car, step_result, step_calls, safe_frames, mild_unsafe_frames,
          unsafe_frames, min_distance_observed, frame_count, current_test_data,
          pc, result, ensured, test_results, report, tests, row, twin,
          animated>>

counters == <<safe_frames, mild_unsafe_frames, unsafe_frames,
              min_distance_observed, frame_count, current_test_data>>

\* what the variables outside a run hold while nothing has used them
aside == <<ensured, test_results, report, tests, row>>

\* the objects run next to the simulator for comparison
beside == <<twin, animated>>

NoTwin == [run |-> FALSE]

NoMovingCar == [run |-> FALSE]

NoBatch == tests = <<>> /\ row = 0

NoneBeside == twin = NoTwin /\ animated = NoMovingCar

NoCall == [point |-> <<>>, safe_point |-> <<>>]

NoReport == [printed |-> FALSE]

\* run_single_test up to the loop (testing.py:336-342), the arguments drawn
\* from the given sets
ConstructFrom(where, starts, ends, obstacle_lists, barriers, speeds) ==
    /\ \E s \in starts, e \in ends, o \in obstacle_lists,
          b \in barriers, v \in speeds :
           car = HeadlessCarSimulator(s, e, o, b, v)
    /\ step_result = TRUE
    /\ step_calls = 0
    /\ safe_frames = 0
    /\ mild_unsafe_frames = 0
    /\ unsafe_frames = 0
    /\ min_distance_observed = Infinity
    /\ frame_count = 0
    /\ current_test_data = {}
    /\ pc = where
    /\ result = NoResult
    /\ ensured = NoCall
    /\ test_results = <<>>
    /\ report = NoReport

Construct(where) ==
    /\ ConstructFrom(where, StartPoints, EndPoints, ObstacleLists,
                     BarrierDistances, Speeds)
    /\ NoBatch
    /\ NoneBeside

Init == Construct("loop")

\* LoopContinues with "frame_count <= 1000"
LoopContinues_OffByOne(ret, frames) == ret /\ frames <= StepCap

\* the loop condition "car.step() and frame_count < 1000", step() already called
LoopContinues(ret, frames) == ret /\ frames < StepCap

\* Min that keeps the distance it already has
Min_KeepsFirst(a, b) == a

\* min(min_distance_observed, distance_to_obstacle) (testing.py:349)
Min(a, b) == IF a < b THEN a ELSE b

\* FrameIncrements with "if" for "elif": a SAFE frame falls into the else too
FrameIncrements_IfForElif(safety_state) ==
    <<IF safety_state = SAFE THEN 1 ELSE 0,
      IF safety_state = MILD_UNSAFE THEN 1 ELSE 0,
      IF safety_state = MILD_UNSAFE THEN 0 ELSE 1>>

\* "Count frames by safety state" (testing.py:355-360): what one frame adds
\* to <<safe_frames, mild_unsafe_frames, unsafe_frames>>
FrameIncrements(safety_state) ==
    IF safety_state = SAFE THEN <<1, 0, 0>>
    ELSE IF safety_state = MILD_UNSAFE THEN <<0, 1, 0>>
    ELSE <<0, 0, 1>>

\* one iteration of the while loop (testing.py:345-368): the step() call of
\* the condition and the body
LoopBody ==
    /\ pc = "loop"
    /\ LET s == step(car)
           distance_to_obstacle == get_distance_to_obstacles(s.car)
           safety_state == get_safety_state(s.car)
       IN /\ LoopContinues(s.ret, frame_count)
          /\ car' = s.car
          /\ step_result' = s.ret
          /\ min_distance_observed' = Min(min_distance_observed, distance_to_obstacle)
          /\ safe_frames' = safe_frames + FrameIncrements(safety_state)[1]
          /\ mild_unsafe_frames' = mild_unsafe_frames + FrameIncrements(safety_state)[2]
          /\ unsafe_frames' = unsafe_frames + FrameIncrements(safety_state)[3]
          /\ current_test_data' = current_test_data \cup {safety_state}
    /\ frame_count' = frame_count + 1
    /\ step_calls' = step_calls + 1
    /\ UNCHANGED <<pc, result, aside>>

LoopIteration == LoopBody /\ UNCHANGED beside

\* the last evaluation of the loop condition and the return (testing.py:345,
\* 370-379)
LoopExitBody ==
    /\ pc = "loop"
    /\ LET s == step(car)
       IN /\ ~LoopContinues(s.ret, frame_count)
          /\ car' = s.car
          /\ step_result' = s.ret
    /\ step_calls' = step_calls + 1
    /\ result' = TestResult(car.barrier_distance, frame_count, safe_frames,
                            mild_unsafe_frames, unsafe_frames, min_distance_observed)
    /\ pc' = "done"
    /\ UNCHANGED <<counters, aside>>

LoopExit == LoopExitBody /\ UNCHANGED beside

Next == LoopIteration \/ LoopExit

Spec == Init /\ [][Next]_vars

(***************************************************************************)
(* The simulator under a client that calls step() any number of times.     *)
(***************************************************************************)
MaxCalls == 160

SimInit == Construct("client")

StepBody ==
    /\ pc = "client"
    /\ step_calls < MaxCalls
    /\ car' = step(car).car
    /\ step_result' = step(car).ret
    /\ step_calls' = step_calls + 1
    /\ UNCHANGED <<counters, pc, result, aside>>

StepCall == StepBody /\ UNCHANGED beside

SimNext == StepCall

SimSpec == SimInit /\ [][SimNext]_vars

(***************************************************************************)
(* The planner on its own: a simulator is constructed, which plans its     *)
(* path (testing.py:118-135), and ensure_safe_point is then called on      *)
(* points of the plane.  The arguments include a start and an end inside   *)
(* an obstacle's barrier, obstacles closer to each other than two barrier  *)
(* distances, and barrier distances that are not positive.                 *)
(***************************************************************************)
MaxPlanObstacles == 2

PlanStartPoints == {Point(0, 0), <<1500, 0>>}
PlanEndPoints == {Point(0, 0), Point(4, 0), Point(4, 3)}
PlanObstaclePoints ==
    {Point(0, 0), Point(2, 0), Point(2, 1), <<3500, 0>>, <<2300, 500>>}
PlanBarrierDistances == {-CoordScale, 0, CoordScale \div 2, CoordScale}
ProbePoints == PlanObstaclePoints \cup {Point(4, 0), <<2900, 0>>}

PlanObstacleLists ==
    UNION {[1..n -> PlanObstaclePoints] : n \in 0..MaxPlanObstacles}

PlanInit ==
    /\ ConstructFrom("planner", PlanStartPoints, PlanEndPoints, PlanObstacleLists,
                     PlanBarrierDistances, {Speed_0_02})
    /\ NoBatch
    /\ NoneBeside

\* car.ensure_safe_point(point) (testing.py:198-210)
EnsureSafePointCall ==
    /\ pc = "planner"
    /\ \E point \in ProbePoints :
           ensured' = [point |-> point,
                       safe_point |-> ensure_safe_point(point, car.obstacle_positions,
                                                        car.barrier_distance)]
    /\ UNCHANGED <<car, step_result, step_calls, counters, pc, result,
                   test_results, report, tests, row, beside>>

PlanNext == EnsureSafePointCall

PlanSpec == PlanInit /\ [][PlanNext]_vars

(***************************************************************************)
(* The claims.                                                             *)
(***************************************************************************)

\* C1: the frame counters sum to the frame count after every iteration of
\* the loop of run_single_test, and to total_frames in the TestResult it
\* returns, whether the run reached the end or was cut off by the cap.
C1_FrameCountersSum ==
    /\ safe_frames + mild_unsafe_frames + unsafe_frames = frame_count
    /\ pc = "done" =>
          result.safe_frames + result.mild_unsafe_frames + result.unsafe_frames
              = result.total_frames

\* a returned TestResult with frames of all three states
C1_Witness ==
    /\ pc = "done"
    /\ result.safe_frames > 0
    /\ result.mild_unsafe_frames > 0
    /\ result.unsafe_frames > 0

\* the worst of a set of safety states, SAFE when there is none
Worst(states) ==
    CHOOSE w \in states \cup {SAFE} : \A x \in states : x <= w

\* C2: the safety_status of a returned TestResult is the worst safety state
\* collected over its counted frames, whichever state has the most frames.
C2_StatusIsWorstObserved ==
    pc = "done" => safety_status(result) = Worst(current_test_data)

\* an UNSAFE result whose unsafe frames are the fewest
C2_Witness ==
    /\ pc = "done"
    /\ result.unsafe_frames > 0
    /\ result.unsafe_frames < result.safe_frames
    /\ result.unsafe_frames < result.mild_unsafe_frames
    /\ safety_status(result) = UNSAFE

\* C3: get_safety_state depends on the current position alone: UNSAFE when
\* some obstacle is nearer than 0.5, else MILD_UNSAFE when some obstacle is
\* nearer than barrier_distance, else SAFE; with no obstacle the distance is
\* infinite and the state SAFE.
C3_SafetyStateByDistance ==
    LET obstacles == {car.obstacle_positions[k] :
                          k \in 1..Len(car.obstacle_positions)}
        in_radius  == \E o \in obstacles :
                          Dist2(car.current_position, o) < Sq(obstacle_radius)
        in_barrier == /\ car.barrier_distance > 0
                      /\ \E o \in obstacles :
                            Dist2(car.current_position, o) < Sq(car.barrier_distance)
    IN /\ get_safety_state(car) =
              IF in_radius THEN UNSAFE
              ELSE IF in_barrier THEN MILD_UNSAFE ELSE SAFE
       /\ obstacles = {} =>
              /\ get_distance_to_obstacles(car) = Infinity
              /\ get_safety_state(car) = SAFE

\* a position inside the barrier and outside the obstacle radius, after a step
C3_Witness ==
    /\ step_calls > 0
    /\ get_safety_state(car) = MILD_UNSAFE
    /\ get_distance_to_obstacles(car) >= Sq(obstacle_radius)

\* C4: run_single_test terminates for every scenario, speed 0 included:
\* every evaluation of the loop condition either ends the loop or counts
\* one more frame, the frame count never exceeds 1000 and at 1000 the
\* condition is false; the TestResult returned holds the counters
\* accumulated, with total_frames <= 1000.
C4_TerminatesWithinCap ==
    /\ [](frame_count <= StepCap /\ step_calls <= StepCap + 1)
    /\ [](pc = "loop" /\ frame_count = StepCap =>
            ~LoopContinues(step(car).ret, frame_count))
    /\ [][pc = "loop" => (pc' = "done" \/ frame_count' = frame_count + 1)]_vars
    /\ [](pc = "done" =>
            /\ result.total_frames <= StepCap
            /\ result = TestResult(car.barrier_distance, frame_count, safe_frames,
                                   mild_unsafe_frames, unsafe_frames,
                                   min_distance_observed))

\* a run at speed 0 cut off by the cap
C4_Witness ==
    /\ pc = "done"
    /\ ~IsPositive(car.speed)
    /\ ~car.has_reached_end
    /\ result.total_frames = StepCap

\* C5: a returned TestResult has total_frames = 1000 exactly when the run
\* was cut off without reaching the end.
C5_CapIffNotReached ==
    pc = "done" => (result.total_frames = StepCap <=> ~car.has_reached_end)

\* C6: once has_reached_end is true, a step() call returns False and leaves
\* current_path_index, progress, current_position and has_reached_end as
\* they are.
C6_StepAfterEndIsNoOp ==
    [][car.has_reached_end =>
          /\ step_result' = FALSE
          /\ car'.current_path_index = car.current_path_index
          /\ car'.progress = car.progress
          /\ car'.current_position = car.current_position
          /\ car'.has_reached_end = car.has_reached_end]_vars

\* a step() call made after the end was reached (a one-segment path at
\* speed 0.5 reaches it on the second call)
C6_Witness ==
    /\ car.has_reached_end
    /\ Len(car.path) = 2
    /\ car.speed = Speed_0_5
    /\ step_calls = 3
    /\ step_result = FALSE

\* C7: whenever has_reached_end is true, current_position is the last point
\* of the path.
C7_AtLastPointWhenReached ==
    car.has_reached_end => car.current_position = car.path[Len(car.path)]

\* C8: after a step() call that leaves the simulator moving, current_position
\* is the interpolation of the current segment (the values of
\* current_path_index and progress after the call).
C8_PositionOnCurrentSegment ==
    (/\ step_calls > 0
     /\ step_result
     /\ ~car.has_reached_end
     /\ car.current_path_index < Len(car.path) - 1)
    => car.current_position =
           Interpolate(PathAt(car, car.current_path_index),
                       PathAt(car, car.current_path_index + 1),
                       car.progress, car.speed.q)

\* C9: with a speed > 0 there is no moving state from which step() answers
\* "still moving" for ever: a moving state that step() leaves as it is,
\* answering "still moving", would be one.
C9_NoStuckMovingState ==
    (IsPositive(car.speed) /\ ~car.has_reached_end)
    => ~(step(car).ret /\ step(car).car = car)

\* C10: the simulator starts with current_path_index 0, progress 0 and
\* has_reached_end false, and progress is below 1 after every step() call
\* (it is a natural multiple of the grid, so never negative).
C10_ProgressBelowOne ==
    /\ step_calls = 0 =>
          /\ car.current_path_index = 0
          /\ car.progress = BigZero
          /\ ~car.has_reached_end
    /\ ~AtLeastOne(car.progress, car.speed)

\* ten additions of 0.1 give 0.9999999999999999: still on the first segment
C10_Witness ==
    /\ step_calls = 10
    /\ car.speed = Speed_0_1
    /\ car.current_path_index = 0
    /\ ~car.has_reached_end
    /\ car.progress # BigZero

(***************************************************************************)
(* generate_test_summary (testing.py:381-432).  What it prints is a        *)
(* record: one entry per group, in the order in which the descriptions     *)
(* first occur, then the overall statistics.  A ZeroDivisionError leaves   *)
(* the report with raised = TRUE and without what was not printed yet.     *)
(* Percentages are in tenths of a percent, as printed with one decimal.    *)
(***************************************************************************)
\* a TestResult with its description attribute (testing.py:24)
WithDescription(r, description) ==
    [f \in DOMAIN r \cup {"description"} |->
        IF f = "description" THEN description ELSE r[f]]

\* the index min() returns for these keys, scanning from k: the first of
\* the smallest
RECURSIVE MinIndexFrom(_, _, _)
MinIndexFrom(keys, best, k) ==
    IF k > Len(keys) THEN best
    ELSE MinIndexFrom(keys, IF keys[k] < keys[best] THEN k ELSE best, k + 1)

\* MinIndexFrom that keeps the last of the smallest keys
MinIndex_LastWins(keys) ==
    CHOOSE i \in 1..Len(keys) :
        /\ \A j \in 1..Len(keys) : keys[i] <= keys[j]
        /\ \A j \in (i + 1)..Len(keys) : keys[i] < keys[j]

\* min(results, key = ...) as an index into a non-empty list
MinIndex(keys) == MinIndexFrom(keys, 1, 2)

Barriers(results) == [i \in 1..Len(results) |-> results[i].barrier_distance]

\* the fallback key taken to be the barrier distance
UnsafeFrames_ByBarrier(results) == Barriers(results)

\* the keys of min(results, key=lambda x: x.unsafe_frames) (testing.py:413)
UnsafeFrames(results) == [i \in 1..Len(results) |-> results[i].unsafe_frames]

IsSafe(r) == safety_status(r) = SAFE

\* sum(1 for r in results if r.safety_status == status)
CountStatus(results, status) ==
    Cardinality({i \in 1..Len(results) : safety_status(results[i]) = status})

\* count / total * 100 printed with one decimal; total is not 0
Percent(count, total) == RDiv(count * 1000, total)

\* the "Optimal Barrier Distance" or "Best Barrier Distance" line of a group
\* (testing.py:405-413); results is not empty
OptimalLine_NoFallback(results) ==
    LET safe_tests == SelectSeq(results, IsSafe)
        optimal == safe_tests[MinIndex(Barriers(safe_tests))]
    IN IF Len(safe_tests) > 0
       THEN [kind |-> "optimal", barrier_distance |-> optimal.barrier_distance]
       ELSE [kind |-> "none"]

OptimalLine(results) ==
    LET safe_tests == SelectSeq(results, IsSafe)
        optimal == safe_tests[MinIndex(Barriers(safe_tests))]
        best_test == results[MinIndex(UnsafeFrames(results))]
    IN IF Len(safe_tests) > 0
       THEN [kind |-> "optimal", barrier_distance |-> optimal.barrier_distance]
       ELSE [kind |-> "best", barrier_distance |-> best_test.barrier_distance,
             unsafe_frames |-> best_test.unsafe_frames]

\* the descriptions in the order in which they first occur
RECURSIVE DescriptionsFrom(_, _, _)
DescriptionsFrom(results, seen, k) ==
    IF k > Len(results) THEN seen
    ELSE DescriptionsFrom(results,
                          IF \E i \in 1..Len(seen) : seen[i] = results[k].description
                          THEN seen ELSE Append(seen, results[k].description),
                          k + 1)

\* grouped_results[description]
Group(results, description) ==
    LET Member(r) == r.description = description
    IN SelectSeq(results, Member)

\* what the loop over the groups prints for one group (testing.py:394-413)
GroupReport(description, results) ==
    LET total_count == Len(results)
    IN [description       |-> description,
        safe_count        |-> CountStatus(results, SAFE),
        mild_unsafe_count |-> CountStatus(results, MILD_UNSAFE),
        unsafe_count      |-> CountStatus(results, UNSAFE),
        total_count       |-> total_count,
        safe_percent      |-> Percent(CountStatus(results, SAFE), total_count),
        mild_unsafe_percent |-> Percent(CountStatus(results, MILD_UNSAFE), total_count),
        unsafe_percent    |-> Percent(CountStatus(results, UNSAFE), total_count),
        optimal           |-> OptimalLine(results)]

\* the "Overall Optimal Barrier Distance" line (testing.py:429-432): the
\* barrier distance printed, or nothing
OverallOptimal(results) ==
    LET safe_tests == SelectSeq(results, IsSafe)
        overall_optimal == safe_tests[MinIndex(Barriers(safe_tests))]
    IN IF Len(safe_tests) > 0 THEN <<overall_optimal.barrier_distance>> ELSE <<>>

generate_test_summary(results) ==
    LET descriptions == DescriptionsFrom(results, <<>>, 1)
        groups == [g \in 1..Len(descriptions) |->
                      GroupReport(descriptions[g], Group(results, descriptions[g]))]
        total_tests == Len(results)
    IN IF total_tests = 0
       THEN \* total_safe/total_tests raises ZeroDivisionError (testing.py:424)
            [printed |-> TRUE, raised |-> TRUE, groups |-> groups,
             total_tests |-> total_tests]
       ELSE [printed |-> TRUE, raised |-> FALSE, groups |-> groups,
             total_tests |-> total_tests,
             total_safe |-> CountStatus(results, SAFE),
             total_mild_unsafe |-> CountStatus(results, MILD_UNSAFE),
             total_unsafe |-> CountStatus(results, UNSAFE),
             safe_percent |-> Percent(CountStatus(results, SAFE), total_tests),
             mild_unsafe_percent |->
                 Percent(CountStatus(results, MILD_UNSAFE), total_tests),
             unsafe_percent |-> Percent(CountStatus(results, UNSAFE), total_tests),
             overall_optimal |-> OverallOptimal(results)]

(***************************************************************************)
(* The aggregator: results are appended to data_collector.test_results     *)
(* (testing.py:300) and generate_test_summary is called on the list        *)
(* (testing.py:308).  The results are TestResults as run_single_test       *)
(* returns them, of ten frames each, under two descriptions.               *)
(***************************************************************************)
MaxResults == 3

SummaryFrames == 10

SummaryBarriers == {CoordScale \div 2, CoordScale, 2 * CoordScale}

Descriptions == {"A", "B"}

\* <<safe, mild_unsafe, unsafe>> frame counts a run with this barrier can
\* return: no frame is MILD_UNSAFE when the barrier is the obstacle radius
FrameCounts(barrier_distance) ==
    {<<SummaryFrames, 0, 0>>, <<SummaryFrames - 1, 0, 1>>, <<SummaryFrames - 3, 0, 3>>}
        \cup IF barrier_distance > obstacle_radius
             THEN {<<SummaryFrames - 2, 2, 0>>} ELSE {}

SummaryResults ==
    UNION {{WithDescription(
                TestResult(b, SummaryFrames, f[1], f[2], f[3],
                           IF f[3] > 0 THEN 0
                           ELSE IF f[2] > 0 THEN Sq(obstacle_radius) ELSE Sq(b)),
                d) : f \in FrameCounts(b), d \in Descriptions}
           : b \in SummaryBarriers}

SummaryInit ==
    /\ ConstructFrom("summary", {Point(0, 0)}, {Point(4, 0)}, {<<>>}, {CoordScale},
                     {Speed_0_02})
    /\ NoBatch
    /\ NoneBeside

\* data_collector.test_results.append(result)
AppendResult ==
    /\ pc = "summary"
    /\ Len(test_results) < MaxResults
    /\ \E r \in SummaryResults : test_results' = Append(test_results, r)
    /\ UNCHANGED <<car, step_result, step_calls, counters, pc, result, ensured,
                   report, tests, row, beside>>

\* generate_test_summary(data_collector.test_results)
GenerateSummary ==
    /\ pc = "summary"
    /\ report' = generate_test_summary(test_results)
    /\ pc' = "reported"
    /\ UNCHANGED <<car, step_result, step_calls, counters, result, ensured,
                   test_results, tests, row, beside>>

SummaryNext == AppendResult \/ GenerateSummary

SummarySpec == SummaryInit /\ [][SummaryNext]_vars

(***************************************************************************)
(* run_tests_from_csv (testing.py:257-331).  A row of the CSV file is a    *)
(* record; valid = FALSE stands for a row with a field that float() does   *)
(* not accept, speed = <<>> for a row without a speed column.  The run of  *)
(* a row is the loop of run_single_test, by the actions LoopIteration and  *)
(* LoopExit.  File output and the visualization are left out.              *)
(***************************************************************************)
MaxRows == 3

WithTestId(r, test_id) ==
    [f \in DOMAIN r \cup {"test_id"} |-> IF f = "test_id" THEN test_id ELSE r[f]]

\* TestIdOf with the loop index itself
TestIdOf_ZeroBased(i) == i

\* test_id = i + 1 (testing.py:290)
TestIdOf(i) == i + 1

\* float(test.get('speed', 0.02))
SpeedOf(test) == IF test.speed = <<>> THEN Speed_0_02 ELSE test.speed[1]

Rows ==
    {[valid |-> TRUE, start_point |-> Point(0, 0), end_point |-> Point(4, 0),
      obstacle |-> Point(2, 0), barrier_distance |-> CoordScale,
      speed |-> <<Speed_0_5>>, description |-> "A"],
     [valid |-> TRUE, start_point |-> Point(0, 0), end_point |-> Point(4, 3),
      obstacle |-> Point(2, 1), barrier_distance |-> CoordScale \div 2,
      speed |-> <<>>, description |-> "B"],
     [valid |-> FALSE, start_point |-> Point(0, 0), end_point |-> Point(4, 0),
      obstacle |-> Point(2, 0), barrier_distance |-> CoordScale,
      speed |-> <<Speed_0_5>>, description |-> "A"]}

Batches == UNION {[1..n -> Rows] : n \in 0..MaxRows}

\* no simulator exists before the first row is run
NoCar == [constructed |-> FALSE]

BatchInit ==
    /\ tests \in Batches
    /\ row = 0
    /\ pc = "batch"
    /\ car = NoCar
    /\ step_result = TRUE
    /\ step_calls = 0
    /\ safe_frames = 0
    /\ mild_unsafe_frames = 0
    /\ unsafe_frames = 0
    /\ min_distance_observed = Infinity
    /\ frame_count = 0
    /\ current_test_data = {}
    /\ result = NoResult
    /\ ensured = NoCall
    /\ test_results = <<>>
    /\ report = NoReport
    /\ NoneBeside

\* a row whose fields parse: run_single_test is called and runs up to its
\* loop (testing.py:281-298, 336-342); the data collector keeps what the
\* earlier runs collected
StartRow ==
    /\ pc = "batch"
    /\ row < Len(tests)
    /\ tests[row + 1].valid
    /\ LET test == tests[row + 1]
       IN car' = HeadlessCarSimulator(test.start_point, test.end_point,
                                      <<test.obstacle>>, test.barrier_distance,
                                      SpeedOf(test))
    /\ step_result' = TRUE
    /\ step_calls' = 0
    /\ safe_frames' = 0
    /\ mild_unsafe_frames' = 0
    /\ unsafe_frames' = 0
    /\ min_distance_observed' = Infinity
    /\ frame_count' = 0
    /\ pc' = "loop"
    /\ UNCHANGED <<current_test_data, result, aside, beside>>

\* run_single_test returned: the result is appended (testing.py:300) and the
\* loop goes to the next row
RowDone ==
    /\ pc = "done"
    /\ test_results' =
           Append(test_results,
                  WithTestId(WithDescription(result, tests[row + 1].description),
                             TestIdOf(row)))
    /\ row' = row + 1
    /\ pc' = "batch"
    /\ UNCHANGED <<car, step_result, step_calls, counters, result, ensured,
                   report, tests, beside>>

\* a row with a field float() rejects: ValueError, caught by the except
\* clause around the whole loop (testing.py:327-331), which returns
RowFails ==
    /\ pc = "batch"
    /\ row < Len(tests)
    /\ ~tests[row + 1].valid
    /\ pc' = "aborted"
    /\ UNCHANGED <<car, step_result, step_calls, counters, result, aside, beside>>

\* after the last row: generate_test_summary (testing.py:319); what it
\* raises is caught by the same except clause
BatchFinish ==
    /\ pc = "batch"
    /\ row = Len(tests)
    /\ report' = generate_test_summary(test_results)
    /\ pc' = IF generate_test_summary(test_results).raised
             THEN "aborted" ELSE "reported"
    /\ UNCHANGED <<car, step_result, step_calls, counters, result, ensured,
                   test_results, tests, row, beside>>

BatchNext ==
    StartRow \/ LoopIteration \/ LoopExit \/ RowDone \/ RowFails \/ BatchFinish

BatchSpec == BatchInit /\ [][BatchNext]_vars

(***************************************************************************)
(* Two runs side by side: run_single_test, and next to it a simulator with *)
(* the same path and speed whose frames are classified with another        *)
(* barrier distance (testing.py:243-255, 345-360).                         *)
(***************************************************************************)
TwinBarriers == {0, CoordScale \div 2, CoordScale, 2 * CoordScale}

TwinSpeeds == {Speed_0_5, Speed_0_1, Speed_0_02}

TwinInit ==
    /\ ConstructFrom("loop", StartPoints, EndPoints, ObstacleLists,
                     BarrierDistances, TwinSpeeds)
    /\ NoBatch
    /\ animated = NoMovingCar
    /\ \E b \in TwinBarriers :
           twin = [run |-> TRUE,
                   car |-> [car EXCEPT !.barrier_distance = b],
                   safe_frames |-> 0, mild_unsafe_frames |-> 0, unsafe_frames |-> 0]

\* one iteration of the loop in both runs
TwinIteration ==
    /\ LoopBody
    /\ LET s == step(twin.car)
           increments == FrameIncrements(get_safety_state(s.car))
       IN twin' = [twin EXCEPT
                      !.car = s.car,
                      !.safe_frames = @ + increments[1],
                      !.mild_unsafe_frames = @ + increments[2],
                      !.unsafe_frames = @ + increments[3]]
    /\ UNCHANGED animated

TwinNext == TwinIteration \/ LoopExit

TwinSpec == TwinInit /\ [][TwinNext]_vars

(***************************************************************************)
(* run_single_test (testing.py:333-379) on scenarios whose obstacles lie   *)
(* at or near the start point, inside the barrier or inside the obstacle   *)
(* radius, so that runs with every safety status occur.                    *)
(***************************************************************************)
CloseObstaclePoints == {Point(0, 0), <<700, 0>>, Point(2, 0)}
CloseSpeeds == {Speed_1, Speed_0_5, Speed_0_1}

CloseObstacleLists ==
    UNION {[1..n -> CloseObstaclePoints] : n \in 0..MaxObstacles}

CloseInit ==
    /\ ConstructFrom("loop", StartPoints, EndPoints, CloseObstacleLists,
                     BarrierDistances, CloseSpeeds)
    /\ NoBatch
    /\ NoneBeside

CloseSpec == CloseInit /\ [][Next]_vars

(***************************************************************************)
(* MovingCar of animation.py next to the HeadlessCarSimulator of a run:    *)
(* both are constructed from the same arguments and update(frame) is       *)
(* called once for every step() call of run_single_test.  The planner,     *)
(* ensure_safe_point, get_distance_to_obstacles and get_safety_state of    *)
(* animation.py (54-163) are those of testing.py line for line, but for    *)
(* what they print, so the same operators model them.  The plot is left    *)
(* out.                                                                    *)
(***************************************************************************)
\* MovingCar.__init__ (animation.py:13-34)
MovingCar(start_point, end_point, obstacle_positions, barrier_distance, speed) ==
    [run                   |-> TRUE,
     car                   |-> [start_point        |-> start_point,
                                end_point          |-> end_point,
                                obstacle_positions |-> obstacle_positions,
                                barrier_distance   |-> barrier_distance,
                                speed              |-> speed,
                                current_position   |-> start_point,
                                path               |-> calculate_safe_path(
                                                           start_point, end_point,
                                                           obstacle_positions,
                                                           barrier_distance),
                                current_path_index |-> 0,
                                progress           |-> BigZero,
                                has_reached_end    |-> FALSE],
     safe_frames           |-> 0,
     mild_unsafe_frames    |-> 0,
     unsafe_frames         |-> 0,
     min_distance_observed |-> Infinity]

\* "Update safety tracking" (animation.py:326-336), the car already moved
TrackSafety(a, moved) ==
    LET increments == FrameIncrements(get_safety_state(moved))
    IN [a EXCEPT !.car = moved,
                 !.min_distance_observed = Min(@, get_distance_to_obstacles(moved)),
                 !.safe_frames = @ + increments[1],
                 !.mild_unsafe_frames = @ + increments[2],
                 !.unsafe_frames = @ + increments[3]]

\* update(frame) (animation.py:282-344) without the drawing: the object
\* after the call
update(a) ==
    IF a.car.has_reached_end THEN a
    ELSE IF a.car.current_path_index < Len(a.car.path) - 1
    THEN LET moved == MoveAlongSegment(a.car)
         IN IF moved.has_reached_end THEN [a EXCEPT !.car = moved]
            ELSE TrackSafety(a, moved)
    ELSE [a EXCEPT !.car.has_reached_end = TRUE,
                   !.car.current_position = a.car.end_point]

AnimationSpeeds == {Speed_1, Speed_0_5, Speed_0_1, Speed_0_02}

AnimationInit ==
    /\ ConstructFrom("loop", StartPoints, EndPoints, ObstacleLists,
                     BarrierDistances, AnimationSpeeds)
    /\ NoBatch
    /\ twin = NoTwin
    /\ animated = MovingCar(car.start_point, car.end_point, car.obstacle_positions,
                            car.barrier_distance, car.speed)

\* an iteration of the loop, and update(frame) for its step() call
AnimatedIteration ==
    /\ LoopBody
    /\ animated' = update(animated)
    /\ UNCHANGED twin

\* the last step() call of the loop, and update(frame) for it
AnimatedExit ==
    /\ LoopExitBody
    /\ animated' = update(animated)
    /\ UNCHANGED twin

AnimationNext == AnimatedIteration \/ AnimatedExit

AnimationSpec == AnimationInit /\ [][AnimationNext]_vars

(***************************************************************************)
(* The planner (PlanSpec).                                                 *)
(***************************************************************************)
\* C11: with an empty obstacle list the planned path is exactly
\* [start, end], whatever the barrier distance and wherever the two points
\* are
C11_NoObstaclesDirectPath ==
    Len(car.obstacle_positions) = 0
        => car.path = <<car.start_point, car.end_point>>

\* no obstacles, start = end, a barrier that is not positive: the path
\* still has its two points
C11_Witness ==
    /\ Len(car.obstacle_positions) = 0
    /\ car.start_point = car.end_point
    /\ car.barrier_distance <= 0
    /\ Len(car.path) = 2
    /\ pc = "planner"

\* adjacent points of the path are more than 0.1 apart
Deduplicated(path) ==
    \A i \in 1..(Len(path) - 1) :
        NormGreater(Dist2(path[i], path[i + 1]), DedupThreshold)

\* C12: every planned path is deduplicated, for every obstacle list, the
\* empty list included
C12_PathDeduplicated == Deduplicated(car.path)

\* C12 (amended): every path planned for a non-empty obstacle list is
\* deduplicated; for an empty list the path is [start, end] however close
\* the two points are
C12_PathDeduplicatedWithObstacles ==
    /\ Len(car.obstacle_positions) > 0 => Deduplicated(car.path)
    /\ Len(car.obstacle_positions) = 0
           => car.path = <<car.start_point, car.end_point>>

\* a path with obstacles from which a candidate point was dropped as a
\* duplicate, other points being kept
C12_Witness ==
    /\ Len(car.obstacle_positions) > 0
    /\ Len(car.path) > 1
    /\ Len(car.path) < 2 + 2 * Len(car.obstacle_positions)
    /\ car.barrier_distance > 0

LastPoint(path) == path[Len(path)]

\* the point is inside no obstacle's barrier
Clear(point, obstacles, barrier_distance) ==
    \A k \in 1..Len(obstacles) :
        ~NormLess(Dist2(point, obstacles[k]), barrier_distance)

\* not more than 0.1 apart
Near(p, q) == ~NormGreater(Dist2(p, q), DedupThreshold)

C14_WaypointsOutsideBarriers ==
    \A i \in 1..Len(car.path), k \in 1..Len(car.obstacle_positions) :
        \/ car.path[i] = car.obstacle_positions[k]
        \/ ~NormLess(Dist2(car.path[i], car.obstacle_positions[k]),
                     car.barrier_distance)

\* the distance is at least t, to within one unit of coordinate rounding
AtLeast(d2, t) == t <= 1 \/ d2 >= Sq(t - 1)

\* C15: ensure_safe_point(p) is at distance >= 1.1 * barrier_distance from
\* every obstacle o whose barrier p violates (0 < |p - o| < barrier_distance)
C15_PushedClearOfViolatedBarriers ==
    ensured # NoCall =>
        \A k \in 1..Len(car.obstacle_positions) :
            LET o == car.obstacle_positions[k]
            IN (ensured.point # o
                /\ NormLess(Dist2(ensured.point, o), car.barrier_distance))
                   => AtLeast(Dist2(ensured.safe_point, o),
                              RDiv(car.barrier_distance * 11, 10))

\* the point lies on one of the obstacles
OnObstacle(point, obstacles) == \E k \in 1..Len(obstacles) : obstacles[k] = point

\* a planned path was returned: a non-empty sequence of points
IsPath(path) ==
    /\ Len(path) >= 1
    /\ \A i \in 1..Len(path) : path[i] \in Int \X Int

\* C16: zero-length vectors raise nothing: ensure_safe_point of a point that
\* coincides with an obstacle returns the point unmodified, and
\* calculate_safe_path with start = end returns a path
C16_DegenerateVectorsHarmless ==
    /\ (ensured # NoCall /\ OnObstacle(ensured.point, car.obstacle_positions))
           => ensured.safe_point = ensured.point
    /\ car.start_point = car.end_point => IsPath(car.path)

\* C16 (amended): the pass of ensure_safe_point for the obstacle the point
\* coincides with leaves the point where it is, so the point is returned
\* unmodified when it is inside no other obstacle's barrier (another
\* obstacle nearer than barrier_distance still pushes it away); and
\* calculate_safe_path with start = end, whose main direction is the zero
\* vector, returns a path starting at the start point
C16_DegenerateVectorsLeftAlone ==
    /\ (ensured # NoCall /\ OnObstacle(ensured.point, car.obstacle_positions))
           => /\ PushAway(ensured.point, ensured.point, car.barrier_distance)
                    = ensured.point
              /\ (\A k \in 1..Len(car.obstacle_positions) :
                      \/ car.obstacle_positions[k] = ensured.point
                      \/ ~NormLess(Dist2(ensured.point, car.obstacle_positions[k]),
                                   car.barrier_distance))
                     => ensured.safe_point = ensured.point
    /\ car.start_point = car.end_point
           => /\ MainDirection(car.start_point, car.end_point) = <<0, 0>>
              /\ IsPath(car.path)
              /\ car.path[1] = car.start_point

\* ensure_safe_point was called on a point lying on an obstacle, with a
\* positive barrier, in a simulator whose start and end are the same point
C16_Witness ==
    /\ ensured # NoCall
    /\ OnObstacle(ensured.point, car.obstacle_positions)
    /\ car.barrier_distance > 0
    /\ ensured.safe_point = ensured.point
    /\ car.start_point = car.end_point
    /\ Len(car.path) > 1

\* the barrier distance the claim has the core use: 0.5 for a barrier
\* distance that is not positive
Substituted(barrier_distance) ==
    IF barrier_distance <= 0 THEN CoordScale \div 2 ELSE barrier_distance

\* C17: a simulator given barrier_distance <= 0 plans its path and
\* classifies safety with the barrier distance 0.5 instead
C17_NonPositiveBarrierReplaced ==
    /\ car.path = calculate_safe_path(car.start_point, car.end_point,
                                      car.obstacle_positions,
                                      Substituted(car.barrier_distance))
    /\ get_safety_state(car)
           = Classify(get_distance_to_obstacles(car), Substituted(car.barrier_distance))
    /\ ensured # NoCall
           => ensured.safe_point
                 = ensure_safe_point(ensured.point, car.obstacle_positions,
                                     Substituted(car.barrier_distance))

(***************************************************************************)
(* The aggregator (SummarySpec).                                           *)
(***************************************************************************)
\* the positions in test_results of the results with this description
Members(description) ==
    {i \in 1..Len(test_results) : test_results[i].description = description}

\* the optimal barrier distance of the policy over the results at these
\* positions: the smallest barrier distance of the SAFE ones, or without a
\* SAFE one the barrier distance of the first result with the fewest unsafe
\* frames
PolicyOptimum(positions) ==
    LET safe == {i \in positions : safety_status(test_results[i]) = SAFE}
        fewest == {i \in positions :
                      \A j \in positions :
                          test_results[i].unsafe_frames <= test_results[j].unsafe_frames}
        first == CHOOSE i \in fewest : \A j \in fewest : i <= j
    IN IF safe # {}
       THEN CHOOSE b \in {test_results[i].barrier_distance : i \in safe} :
                \A i \in safe : b <= test_results[i].barrier_distance
       ELSE test_results[first].barrier_distance

\* the results of the spec's example, in one group:
\* SAFE(barrier 1.0), SAFE(barrier 2.0), UNSAFE(barrier 0.5)
ExampleResults ==
    <<WithDescription(TestResult(CoordScale, SummaryFrames, SummaryFrames, 0, 0,
                                 Sq(CoordScale)), "A"),
      WithDescription(TestResult(2 * CoordScale, SummaryFrames, SummaryFrames, 0, 0,
                                 Sq(2 * CoordScale)), "A"),
      WithDescription(TestResult(CoordScale \div 2, SummaryFrames,
                                 SummaryFrames - 1, 0, 1, 0), "A")>>

\* C18: the optimal barrier distance reported for a group is the smallest
\* barrier distance of its SAFE members; without a SAFE member it is the
\* barrier distance of the member with the fewest unsafe frames, the first
\* in input order on a tie; the spec's example reports 1.0
C18_GroupOptimalBarrier ==
    pc = "reported" =>
        /\ \A i \in 1..Len(test_results) :
               \E g \in 1..Len(report.groups) :
                   report.groups[g].description = test_results[i].description
        /\ \A g \in 1..Len(report.groups) :
               LET group == report.groups[g]
                   has_safe == \E i \in Members(group.description) :
                                  safety_status(test_results[i]) = SAFE
               IN /\ Members(group.description) # {}
                  /\ group.optimal.kind = IF has_safe THEN "optimal" ELSE "best"
                  /\ group.optimal.barrier_distance
                        = PolicyOptimum(Members(group.description))
        /\ test_results = ExampleResults
               => report.groups[1].optimal.barrier_distance = CoordScale

\* a group without a SAFE member whose two members with the fewest unsafe
\* frames have different barrier distances: the first one is reported
C18_Witness ==
    /\ pc = "reported"
    /\ \E g \in 1..Len(report.groups) :
           /\ report.groups[g].optimal.kind = "best"
           /\ \E i, j \in Members(report.groups[g].description) :
                  /\ i < j
                  /\ test_results[i].unsafe_frames = report.groups[g].optimal.unsafe_frames
                  /\ test_results[j].unsafe_frames = report.groups[g].optimal.unsafe_frames
                  /\ test_results[i].barrier_distance # test_results[j].barrier_distance
                  /\ report.groups[g].optimal.barrier_distance
                        = test_results[i].barrier_distance

\* C19: the same policy over all the results: the overall optimal barrier
\* distance is the smallest barrier distance of the SAFE results, and
\* without a SAFE result the barrier distance of the result with the fewest
\* unsafe frames
C19_OverallOptimalBarrier ==
    (pc = "reported" /\ Len(test_results) > 0)
        => report.overall_optimal = <<PolicyOptimum(1..Len(test_results))>>

\* C20: generate_test_summary of an empty list completes without raising
\* and reports that there are no tests
C20_EmptyListReported ==
    (pc = "reported" /\ Len(test_results) = 0)
        => /\ ~report.raised
           /\ report.total_tests = 0
           /\ report.groups = <<>>

(***************************************************************************)
(* The batch runner (BatchSpec).                                           *)
(***************************************************************************)
\* run_tests_from_csv has returned
BatchEnded == pc \in {"reported", "aborted"}

\* C21: a row with a non-numeric field aborts only its own scenario: once
\* the batch has ended, every well-formed row, those after the bad row
\* included, has its TestResult in the list, and the list was summarised
C21_BadRowSkippedOnly ==
    (/\ BatchEnded
     /\ \E k \in 1..Len(tests) : ~tests[k].valid
     /\ \E k \in 1..Len(tests) : tests[k].valid)
        => /\ \A k \in 1..Len(tests) :
                  tests[k].valid
                      => \E n \in 1..Len(test_results) : test_results[n].test_id = k
           /\ report.printed

\* the result of one scenario without its test_id
Anonymous(r) == [f \in DOMAIN r \ {"test_id"} |-> r[f]]

\* the result list holds the results of the rows 1..row, in input order
C23_ListIsRowsSoFar ==
    /\ Len(test_results) = row
    /\ \A k \in 1..row :
           /\ test_results[k].test_id = k
           /\ test_results[k].description = tests[k].description
           /\ test_results[k].barrier_distance = tests[k].barrier_distance

\* two equal rows have equal results, wherever they stand in the batch
C23_ResultOfRowOnly ==
    \A j, k \in 1..Len(test_results) :
        tests[j] = tests[k] => Anonymous(test_results[j]) = Anonymous(test_results[k])

\* C23: scenarios are processed in input order: while scenario row + 1 is
\* run the list holds exactly the results of the scenarios 1..row, with
\* test_id the 1-based position; an entry of the list is never modified or
\* removed; and the result of a scenario depends on its own row only
C23_SequentialAppendOnly ==
    /\ [](C23_ListIsRowsSoFar /\ C23_ResultOfRowOnly)
    /\ [][\/ test_results' = test_results
          \/ /\ Len(test_results') = Len(test_results) + 1
             /\ SubSeq(test_results', 1, Len(test_results)) = test_results
             /\ pc = "done"]_vars

\* the third scenario is running after two others, and its row is the row
\* of the first scenario
C23_Witness ==
    /\ pc = "loop"
    /\ row = 2
    /\ frame_count > 0
    /\ Len(test_results) = 2
    /\ tests[3] = tests[1]
    /\ tests[2] # tests[1]
    /\ current_test_data # {}

(***************************************************************************)
(* Two classifications of one run (TwinSpec).                              *)
(***************************************************************************)
\* C22: for the same start, end, obstacles, speed and planned path, the run
\* classified with the larger barrier distance never has fewer MILD_UNSAFE
\* + UNSAFE frames than the run classified with the smaller one; both runs
\* count the same frames
C22_NonSafeFramesMonotone ==
    twin.run =>
        /\ twin.car.path = car.path
        /\ twin.safe_frames + twin.mild_unsafe_frames + twin.unsafe_frames
              = frame_count
        /\ twin.car.barrier_distance >= car.barrier_distance
              => twin.mild_unsafe_frames + twin.unsafe_frames
                    >= mild_unsafe_frames + unsafe_frames
        /\ twin.car.barrier_distance <= car.barrier_distance
              => twin.mild_unsafe_frames + twin.unsafe_frames
                    <= mild_unsafe_frames + unsafe_frames

\* a finished run whose frames are not all SAFE, and more of them are not
\* SAFE under the larger barrier distance
C22_Witness ==
    /\ twin.run
    /\ pc = "done"
    /\ twin.car.barrier_distance > car.barrier_distance
    /\ mild_unsafe_frames + unsafe_frames > 0
    /\ safe_frames > 0
    /\ twin.mild_unsafe_frames + twin.unsafe_frames
          > mild_unsafe_frames + unsafe_frames

(***************************************************************************)
(* Steps to the end of the path (Spec).                                    *)
(***************************************************************************)
\* the number of additions of speed s to the sum after which the sum is at
\* least 1.0, counted from n, the additions being exact (rounded = FALSE)
\* or binary64 additions (rounded = TRUE); MaxAdditions + 1 stands for any
\* number above MaxAdditions
MaxAdditions == 60

RECURSIVE AdditionsFrom(_, _, _, _)
AdditionsFrom(sum, s, n, rounded) ==
    IF n > MaxAdditions \/ AtLeastOne(sum, s) THEN n
    ELSE AdditionsFrom(IF rounded THEN FloatAdd(sum, s.m) ELSE BigAdd(sum, s.m),
                       s, n + 1, rounded)

\* both numbers for the speeds of the scenarios
AdditionsOf ==
    [s \in Speeds |-> [exact   |-> AdditionsFrom(BigZero, s, 0, FALSE),
                       rounded |-> AdditionsFrom(BigZero, s, 0, TRUE)]]

\* ceil(1 / s)
CeilInverse(s) == AdditionsOf[s].exact

\* the number of executions of "progress += speed" that take progress from
\* 0.0 to at least 1.0
AdditionsToOne(s) == AdditionsOf[s].rounded

\* the simulator reaches the end on exactly the given step() call, and
\* run_single_test then reports one frame less
ReachesEndOnCall(calls) ==
    /\ car.has_reached_end <=> step_calls >= calls
    /\ pc = "done" => (step_calls = calls /\ result.total_frames = calls - 1)

Configuration(c) ==
    <<c.path, c.obstacle_positions, c.barrier_distance, c.speed,
      c.start_point, c.end_point>>

C25_ConfigurationReadOnly ==
    [][Configuration(car') = Configuration(car)]_vars

\* a run that has left the first segment of a path round an obstacle, so
\* step() has moved the car and changed its index, and the other two have
\* been called on the moved car
C25_Witness ==
    /\ pc = "loop"
    /\ Len(car.path) >= 3
    /\ Len(car.obstacle_positions) >= 1
    /\ car.current_path_index >= 1
    /\ car.current_position # car.start_point
    /\ min_distance_observed < Infinity
    /\ Configuration(car) =
         Configuration(HeadlessCarSimulator(car.start_point, car.end_point,
                                            car.obstacle_positions,
                                            car.barrier_distance, car.speed))

(***************************************************************************)
(* C26: for each obstacle, calculate_safe_path takes as avoidance point    *)
(* the candidate (obstacle + perp*1.5*barrier or obstacle -                *)
(* perp*1.5*barrier, perp being the perpendicular of the fixed             *)
(* start-to-end direction) that is closer to the end point, so the chosen  *)
(* candidate is never farther from the end than the rejected one; when     *)
(* both are equidistant (obstacle on the start-end line) the obstacle -    *)
(* perp candidate is chosen, and the approach point is offset to the same  *)
(* side as the chosen candidate.  The side of a point is the sign of its   *)
(* component along perp, measured from the point it was offset from.       *)
(***************************************************************************)
SideOf(perp, from, point) == Sign(Dot(perp, Sub(point, from)))

AvoidanceChoice(c, obstacle) ==
    LET main_direction == MainDirection(c.start_point, c.end_point)
        perp      == Perp(main_direction)
        side1     == Offset(obstacle, perp, c.barrier_distance, 3, 2)
        side2     == Offset(obstacle, Scaled(perp, -1), c.barrier_distance, 3, 2)
        best_side == BestSide(c.start_point, c.end_point, obstacle,
                              c.barrier_distance)
        rejected  == IF best_side = side1 THEN side2 ELSE side1
        behind    == Offset(obstacle, Scaled(main_direction, -1),
                            c.barrier_distance, 6, 5)
        approach_point == ApproachPoint(c.start_point, c.end_point, obstacle,
                                        c.barrier_distance)
    IN [side1 |-> side1, side2 |-> side2, best_side |-> best_side,
        closer |-> Dist2(c.end_point, best_side) <= Dist2(c.end_point, rejected),
        tie |-> Dist2(c.end_point, side1) = Dist2(c.end_point, side2),
        chosen_side |-> SideOf(perp, obstacle, best_side),
        approach_side |-> SideOf(perp, behind, approach_point)]

CloserCandidateChosen(c, obstacle) ==
    LET a == AvoidanceChoice(c, obstacle)
    IN /\ a.best_side \in {a.side1, a.side2}
       /\ a.closer
       /\ a.tie => a.best_side = a.side2

C26_CloserSideAndApproachSameSide ==
    \A k \in 1..Len(car.obstacle_positions) :
        /\ CloserCandidateChosen(car, car.obstacle_positions[k])
        /\ AvoidanceChoice(car, car.obstacle_positions[k]).approach_side
               = AvoidanceChoice(car, car.obstacle_positions[k]).chosen_side

(***************************************************************************)
(* C27: for every TestResult returned by run_single_test with              *)
(* barrier_distance >= 0.5, safety_status equals the classification of     *)
(* min_distance_observed: UNSAFE iff min_distance_observed < 0.5,          *)
(* MILD_UNSAFE iff 0.5 <= min_distance_observed < barrier_distance, SAFE   *)
(* iff min_distance_observed >= barrier_distance (infinity when no frame   *)
(* was counted or there are no obstacles).                                 *)
(***************************************************************************)
StatusIsClassOfMinimum(r) ==
    LET inside_radius  == NormLess(r.min_distance_observed, obstacle_radius)
        inside_barrier == NormLess(r.min_distance_observed, r.barrier_distance)
    IN /\ safety_status(r) = UNSAFE <=> inside_radius
       /\ safety_status(r) = MILD_UNSAFE <=> (~inside_radius /\ inside_barrier)
       /\ safety_status(r) = SAFE <=> ~inside_barrier
       /\ safety_status(r) = Classify(r.min_distance_observed, r.barrier_distance)
       /\ (r.total_frames = 0 \/ Len(car.obstacle_positions) = 0)
              => (r.min_distance_observed = Infinity /\ safety_status(r) = SAFE)

C27_StatusIsClassOfMinimumDistance ==
    (pc = "done" /\ result.barrier_distance >= obstacle_radius)
        => StatusIsClassOfMinimum(result)

\* a run past an obstacle that came inside the barrier of 1.0 but never
\* inside the radius 0.5: the minimum lies between the two, the status is
\* MILD_UNSAFE, and safe frames were counted as well
C27_Witness ==
    /\ pc = "done"
    /\ result.barrier_distance > obstacle_radius
    /\ result.safe_frames > 0
    /\ result.mild_unsafe_frames > 0
    /\ ~NormLess(result.min_distance_observed, obstacle_radius)
    /\ NormLess(result.min_distance_observed, result.barrier_distance)
    /\ safety_status(result) = MILD_UNSAFE

(***************************************************************************)
(* C28: across any sequence of step() calls on HeadlessCarSimulator,       *)
(* current_path_index never decreases, grows by at most 1 per call and     *)
(* stays within 0..len(path)-1; has_reached_end, once true, never becomes  *)
(* false; and has_reached_end true implies current_path_index ==           *)
(* len(path) - 1.                                                          *)
(***************************************************************************)
IndexInPath ==
    /\ car.current_path_index \in 0..(Len(car.path) - 1)
    /\ car.has_reached_end => car.current_path_index = Len(car.path) - 1

IndexAdvances ==
    /\ car'.current_path_index \in
           {car.current_path_index, car.current_path_index + 1}
    /\ car.has_reached_end => car'.has_reached_end

C28_IndexMonotoneEndSticky == []IndexInPath /\ [][IndexAdvances]_vars

\* the car has gone through the three segments of a path round an obstacle
\* at speed 0.5 and step() has been called again after the end was reached
C28_Witness ==
    /\ pc = "client"
    /\ car.speed = Speed_0_5
    /\ Len(car.path) = 4
    /\ car.has_reached_end
    /\ car.current_path_index = 3
    /\ step_calls > 6

(***************************************************************************)
(* C29: on identical inputs (start, end, obstacles, barrier distance,      *)
(* speed), the animated MovingCar.update of animation.py and               *)
(* HeadlessCarSimulator.step of testing.py pass, call for call, through    *)
(* the same sequence of (current_path_index, progress, current_position,   *)
(* has_reached_end) states and accumulate the same safe / mild-unsafe /    *)
(* unsafe frame counts and minimum distance, for every path the planner    *)
(* can return.  The counts are compared while run_single_test counts,      *)
(* that is until its loop ends.                                            *)
(***************************************************************************)
Motion(c) ==
    <<c.current_path_index, c.progress, c.current_position, c.has_reached_end>>

SameMotion == Motion(animated.car) = Motion(car)

SameTracking ==
    /\ animated.safe_frames = safe_frames
    /\ animated.mild_unsafe_frames = mild_unsafe_frames
    /\ animated.unsafe_frames = unsafe_frames
    /\ animated.min_distance_observed = min_distance_observed

C29_UpdateMatchesStep ==
    animated.run => (SameMotion /\ (pc = "loop" => SameTracking))

(***************************************************************************)
(* C30: in generate_test_summary, when a group has no SAFE member but at   *)
(* least one MILD_UNSAFE member, the fallback 'best barrier distance' is   *)
(* always that of the first MILD_UNSAFE member in input order (it has zero *)
(* unsafe frames), whatever its barrier_distance is relative to the other  *)
(* members; an UNSAFE member is chosen only when every member of the group *)
(* is UNSAFE.  The member chosen is known by the barrier distance and the  *)
(* unsafe frames the line prints.                                          *)
(***************************************************************************)
WithStatus(positions, status) ==
    {i \in positions : safety_status(test_results[i]) = status}

First(positions) == CHOOSE i \in positions : \A j \in positions : i <= j

FallbackIsFirstMild(group) ==
    LET members == Members(group.description)
        mild    == WithStatus(members, MILD_UNSAFE)
    IN /\ (WithStatus(members, SAFE) = {} /\ mild # {})
           => /\ group.optimal.kind = "best"
              /\ group.optimal.unsafe_frames = 0
              /\ test_results[First(mild)].unsafe_frames = 0
              /\ group.optimal.barrier_distance
                    = test_results[First(mild)].barrier_distance
       /\ (group.optimal.kind = "best" /\ group.optimal.unsafe_frames > 0)
           => WithStatus(members, UNSAFE) = members
       /\ group.optimal.kind = "optimal"
           => \E i \in WithStatus(members, SAFE) :
                  test_results[i].barrier_distance = group.optimal.barrier_distance

C30_FallbackFirstMildUnsafe ==
    pc = "reported" =>
        \A g \in 1..Len(report.groups) : FallbackIsFirstMild(report.groups[g])

\* one group of an UNSAFE run with barrier 0.5, then a MILD_UNSAFE run with
\* barrier 2.0, then a MILD_UNSAFE run with barrier 1.0: the line reports
\* 2.0, neither the smallest barrier nor the smallest MILD_UNSAFE one
C30_Witness ==
    /\ pc = "reported"
    /\ Len(test_results) = 3
    /\ Len(report.groups) = 1
    /\ safety_status(test_results[1]) = UNSAFE
    /\ test_results[1].barrier_distance = CoordScale \div 2
    /\ safety_status(test_results[2]) = MILD_UNSAFE
    /\ test_results[2].barrier_distance = 2 * CoordScale
    /\ safety_status(test_results[3]) = MILD_UNSAFE
    /\ test_results[3].barrier_distance = CoordScale
    /\ report.groups[1].optimal
           = [kind |-> "best", barrier_distance |-> 2 * CoordScale, unsafe_frames |-> 0]

====
